---- MODULE Spec2Model ----
(***************************************************************************)
(* Model of the CARS point-cloud-to-DSM core:                              *)
(*   - rasterization_tools.py : grid footprint, rasterize, dataset         *)
(*     assembly;                                                           *)
(*   - point_cloud_to_dsm_pipeline.py : PointCloudsToDsmPipeline.run.      *)
(***************************************************************************)
EXTENDS Integers, Sequences, FiniteSets, TLC

(***************************************************************************)
(* Bounds of the model.                                                    *)
(***************************************************************************)
\* significand width of the modelled binary floating point (float64 has 53)
Prec == 3
\* a value v of the model stands for the number v / 2^FracBits
FracBits == 2
\* cloud points sit at the centres k + 1/2 of the unit cells -CellMax-1..CellMax
CellMax == 3
\* largest resolution, in units of 2^-FracBits
ResMax == 3
\* largest number of points (rows) of a cloud
MaxPts == 2
\* largest number of cells x_size * y_size of a footprint handed to rasterize
MaxCells == 4
\* largest number of colour bands of a cloud
MaxClr == 1
\* largest optimal tile width an application reports
MaxWidth == 2
\* largest margin an application asks for
MaxMargin == 5
\* largest number of terrain tiles the rasterization is dispatched on
MaxTiles == 3
\* largest number of pixels of a mask given to get_msk_from_classes, the
\* mask of the unit test apart
MaxMaskPix == 2

(***************************************************************************)
(* Floating point arithmetic of numpy float64, at reduced precision: a     *)
(* float is an integer number of units 2^-FracBits whose magnitude is      *)
(* m * 2^e with m < 2^Prec and e >= 0; every operation rounds its exact    *)
(* result to the nearest float, ties to even.                              *)
(***************************************************************************)
RECURSIVE Pow2(_)
Pow2(k) == IF k <= 0 THEN 1 ELSE 2 * Pow2(k - 1)

Scale == Pow2(FracBits)

Abs(n) == IF n < 0 THEN -n ELSE n

\* n/d (d > 0, n >= 0) rounded to the nearest integer, ties to even
RoundHalfEven(n, d) ==
    LET q == n \div d
        rem == n % d
    IN  IF 2 * rem > d \/ (2 * rem = d /\ q % 2 = 1) THEN q + 1 ELSE q

\* the binary exponent of n/d: the least e >= 0 with n/d < 2^(Prec+e)
RECURSIVE Exponent(_, _, _)
Exponent(n, d, e) ==
    IF n < Pow2(Prec + e) * d THEN e ELSE Exponent(n, d, e + 1)

\* the float nearest to the rational n/d units (d > 0)
Round(n, d) ==
    LET a == Abs(n)
        e == Exponent(a, d, 0)
        mag == RoundHalfEven(a, d * Pow2(e)) * Pow2(e)
    IN  IF n < 0 THEN -mag ELSE mag

IsFloat(v) == Round(v, 1) = v

FDiv(a, b) == Round(a * Scale, b)
FMul(a, b) == Round(a * b, Scale)
FSub(a, b) == Round(a - b, 1)
FAdd(a, b) == Round(a + b, 1)
\* np.floor, np.ceil: exact on floats
FFloor(a) == (a \div Scale) * Scale
FCeilAsFloor(a) == FFloor(a)
FCeil(a) == -FFloor(-a)
\* int(): truncation of an integral float to a python int
ToInt(a) == IF a >= 0 THEN a \div Scale ELSE -((-a) \div Scale)
\* a python int as a float
FromInt(k) == Round(k * Scale, 1)

(***************************************************************************)
(* Inputs of the grid calculator.                                          *)
(***************************************************************************)
CellCentre(k) == k * Scale + Scale \div 2
Coords == {v \in {CellCentre(k) : k \in (-CellMax - 1)..CellMax} : IsFloat(v)}
Resolutions == {r \in 1..ResMax : IsFloat(r)}
\* the two axes are computed independently of each other: the points are
\* taken on the two diagonals y = x and y = -x
Points == {[x |-> v, y |-> s * v] : v \in Coords, s \in {-1, 1}}
RECURSIVE SeqsUpTo(_, _)
SeqsUpTo(S, n) ==
    IF n = 0 THEN {<<>>}
    ELSE LET shorter == SeqsUpTo(S, n - 1)
         IN  shorter \cup {Append(s, e) : s \in {t \in shorter : Len(t) = n - 1}, e \in S}
Clouds == SeqsUpTo(Points, MaxPts)

VARIABLES
    cloud,        \* the point cloud: a sequence of points (rows)
    resolution,   \* the resolution of the grid
    xy,           \* outcome of compute_xy_starts_and_sizes
    axes,         \* outcome of compute_values_1d: the coordinates of the dataset
    columns,      \* the colour and confidence columns of the cloud, in order
    call,         \* entry point and arguments of a rasterization call
    kernel,       \* what crasterize.pc_to_dsm returned, if it was invoked
    raster,       \* outcome of the rasterization call
    self,         \* the PointCloudsToDsmPipeline object: configuration and applications
    pc,           \* position of PointCloudsToDsmPipeline.run
    locals,       \* local variables of run
    calls,        \* the calls run has made to its collaborators, in order
    orch,         \* the orchestrator of run: the tile tasks and the final write
    cfg,          \* the user configuration a pipeline is constructed from
    built,        \* outcome of PointCloudsToDsmPipeline.__init__ and what it logged
    fill,         \* a call of DenseMatchingFilling(conf) and its outcome
    sizing,       \* two tile sizings of run, one per value of an input
    masking       \* a call of get_msk_from_classes and its result

gridVars == <<cloud, resolution, xy, axes>>
rasterVars == <<columns, call, kernel, raster>>
pipelineVars == <<self, pc, locals, calls, orch>>
constructVars == <<cfg, built, fill>>
vars == <<cloud, resolution, xy, axes, columns, call, kernel, raster, self, pc, locals, calls,
         orch, cfg, built, fill, sizing, masking>>

(***************************************************************************)
(* compute_xy_starts_and_sizes                                             *)
(***************************************************************************)
Column(c, name) == [i \in 1..Len(c) |-> IF name = "x" THEN c[i].x ELSE c[i].y]

RECURSIVE NanMin(_)
NanMin(values) ==
    IF Len(values) = 1 THEN values[1]
    ELSE LET m == NanMin(Tail(values))
         IN  IF values[1] < m THEN values[1] ELSE m

RECURSIVE NanMax(_)
NanMax(values) ==
    IF Len(values) = 1 THEN values[1]
    ELSE LET m == NanMax(Tail(values))
         IN  IF values[1] > m THEN values[1] ELSE m

\* np.nanmin of a zero-size array: the reduction has no identity
ZeroSizeReductionAsZero ==
    [status |-> "return", x_start |-> 0, y_start |-> 0, x_size |-> 1, y_size |-> 1]
ZeroSizeReduction == [status |-> "raise", error |-> "ValueError"]

compute_xy_starts_and_sizes(r, c) ==
    IF Len(c) = 0
    THEN ZeroSizeReduction
    ELSE LET xmin == NanMin(Column(c, "x"))
             xmax == NanMax(Column(c, "x"))
             x_start == FMul(FFloor(FDiv(xmin, r)), r)
             x_size == ToInt(FAdd(FromInt(1), FFloor(FDiv(FSub(xmax, x_start), r))))
             ymin == NanMin(Column(c, "y"))
             ymax == NanMax(Column(c, "y"))
             y_start == FMul(FCeil(FDiv(ymax, r)), r)
             y_size == ToInt(FAdd(FromInt(1), FFloor(FDiv(FSub(y_start, ymin), r))))
         IN  [status |-> "return", x_start |-> x_start, y_start |-> y_start,
              x_size |-> x_size, y_size |-> y_size]

NotCalled == [status |-> "none"]
None == [none |-> TRUE]
Some(v) == [some |-> v]

\* the construction state while nothing is constructed
ConstructIdle ==
    /\ cfg = None
    /\ built = NotCalled
    /\ fill = None
    /\ sizing = None
    /\ masking = None

\* the pipeline state while no pipeline is run
PipelineIdle ==
    /\ ConstructIdle
    /\ self = None
    /\ pc = "idle"
    /\ locals = None
    /\ calls = <<>>
    /\ orch = None

\* the rasterization state while only the grid calculator is exercised
RasterIdle ==
    /\ columns = <<>>
    /\ call = None
    /\ kernel = NotCalled
    /\ raster = NotCalled

GridInit ==
    /\ cloud \in Clouds
    /\ resolution \in Resolutions
    /\ xy = NotCalled
    /\ axes = NotCalled
    /\ RasterIdle
    /\ PipelineIdle

CallComputeXyStartsAndSizes ==
    /\ call = None
    /\ xy = NotCalled
    /\ xy' = compute_xy_starts_and_sizes(resolution, cloud)
    /\ UNCHANGED <<cloud, resolution, axes, rasterVars, pipelineVars, constructVars, sizing, masking>>

GridNext == CallComputeXyStartsAndSizes

SpecGrid == GridInit /\ [][GridNext]_vars

(***************************************************************************)
(* Claims about the grid calculator.                                       *)
(***************************************************************************)
XValues == {cloud[i].x : i \in 1..Len(cloud)}
YValues == {cloud[i].y : i \in 1..Len(cloud)}
Least(S) == CHOOSE v \in S : \A w \in S : v <= w
Greatest(S) == CHOOSE v \in S : \A w \in S : v >= w
\* integral floats around the quotients the model can produce
Integrals == {k * Scale : k \in -(8 * Pow2(Prec))..(8 * Pow2(Prec))}
\* the greatest integral float below or at q, the least one above or at q
FloorOf(q) == CHOOSE k \in Integrals : k <= q /\ q < k + Scale
CeilOf(q) == CHOOSE k \in Integrals : k - Scale < q /\ q <= k

\* C1: for a cloud of at least one point the calculator returns
\* x_start = floor(xmin/r)*r, x_size = 1 + floor((xmax - x_start)/r),
\* y_start = ceil(ymax/r)*r and y_size = 1 + floor((y_start - ymin)/r),
\* the operations being those of the float arithmetic and xmin, xmax, ymin,
\* ymax the extremes of the x and y columns.
C1_FootprintFormulas ==
    (xy # NotCalled /\ Len(cloud) >= 1) =>
        /\ xy.status = "return"
        /\ xy.x_start = FMul(FloorOf(FDiv(Least(XValues), resolution)), resolution)
        /\ FromInt(xy.x_size) =
              FAdd(Scale, FloorOf(FDiv(FSub(Greatest(XValues), xy.x_start), resolution)))
        /\ xy.y_start = FMul(CeilOf(FDiv(Greatest(YValues), resolution)), resolution)
        /\ FromInt(xy.y_size) =
              FAdd(Scale, FloorOf(FDiv(FSub(xy.y_start, Least(YValues)), resolution)))

\* C1 witness: a footprint was returned for a cloud of two points whose
\* extremes differ on both axes and lie on either side of the origin.
C1_Witness ==
    /\ xy.status = "return"
    /\ Len(cloud) = 2
    /\ Least(XValues) < 0 /\ Greatest(XValues) > 0
    /\ Least(YValues) < 0 /\ Greatest(YValues) > 0
    /\ xy.x_size > 1 /\ xy.y_size > 1

\* the column and row of a point on the returned grid, in exact arithmetic
ColumnIndex(x) == (x - xy.x_start) \div resolution
RowIndex(y) == (xy.y_start - y) \div resolution

\* C2: for a non-empty cloud the returned footprint satisfies
\* x_start <= xmin < x_start + x_size*r and y_start - y_size*r < ymin <= y_start,
\* the sizes are at least 1 and every point of the cloud has its column in
\* [0, x_size) and its row in [0, y_size).
C2_FootprintEnclosesCloud ==
    (xy # NotCalled /\ Len(cloud) >= 1) =>
        /\ xy.status = "return"
        /\ xy.x_start <= Least(XValues)
        /\ Least(XValues) < xy.x_start + xy.x_size * resolution
        /\ xy.y_start - xy.y_size * resolution < Least(YValues)
        /\ Least(YValues) <= xy.y_start
        /\ xy.x_size >= 1 /\ xy.y_size >= 1
        /\ \A i \in 1..Len(cloud) :
              /\ ColumnIndex(cloud[i].x) \in 0..(xy.x_size - 1)
              /\ RowIndex(cloud[i].y) \in 0..(xy.y_size - 1)

\* C5 as stated: on a cloud of zero points the calculator fails with the
\* error kind EmptyCloudError and returns no footprint.
C5_EmptyCloudError ==
    (xy # NotCalled /\ Len(cloud) = 0) =>
        (xy.status = "raise" /\ xy.error = "EmptyCloudError")

\* C5 amended: on a cloud of zero points the calculator fails with the
\* ValueError of the zero-size reduction and returns no footprint.
C5_EmptyCloudValueError ==
    (xy # NotCalled /\ Len(cloud) = 0) =>
        (xy.status = "raise" /\ xy.error = "ValueError")

\* C5 witness: the calculator was called on a cloud of zero points and raised.
C5_Witness == Len(cloud) = 0 /\ xy.status = "raise"

(***************************************************************************)
(* compute_values_1d: the coordinates create_raster_dataset attaches.      *)
(* Small python ints and the halves n + 0.5 are exact in float64, so a     *)
(* product with one of them rounds once.                                   *)
(***************************************************************************)
\* 0.5 * r
HalfOf(r) == Round(r, 2)
\* r * (n + 0.5) for a python int n
TimesIntAndHalf(r, n) == Round(r * (2 * n + 1), 2)

\* np.linspace(start, stop, num, endpoint=False)
Linspace(start, stop, num) ==
    LET delta == FSub(stop, start)
        step == Round(delta, num)
    IN  [k \in 1..num |->
            IF step = 0
            THEN FAdd(FMul(Round((k - 1) * Scale, num), delta), start)
            ELSE FAdd(Round((k - 1) * step, 1), start)]

\* the axes starting on the corner of the first cell instead of its centre
ComputeValues1dFromCorner(x_start, y_start, x_size, y_size, res) ==
    [status |-> "return",
     x_values_1d |-> Linspace(x_start, FAdd(x_start, Round(res * x_size, 1)), x_size),
     y_values_1d |-> Linspace(y_start, FSub(y_start, Round(res * y_size, 1)), y_size)]
compute_values_1d(x_start, y_start, x_size, y_size, res) ==
    [status |-> "return",
     x_values_1d |-> Linspace(FAdd(x_start, HalfOf(res)),
                              FAdd(x_start, TimesIntAndHalf(res, x_size)), x_size),
     y_values_1d |-> Linspace(FSub(y_start, HalfOf(res)),
                              FSub(y_start, TimesIntAndHalf(res, y_size)), y_size)]

\* the coordinates of the dataset: create_raster_dataset hands its footprint on
raster_coords(x_start, y_start, x_size, y_size, res) ==
    compute_values_1d(x_start, y_start, x_size, y_size, res)

\* resolutions whose half is a float of the model (float64 halves exactly)
AxisResolutions == {r \in Resolutions : HalfOf(r) * 2 = r}

AxesInit ==
    /\ cloud \in Clouds
    /\ resolution \in AxisResolutions
    /\ xy = NotCalled
    /\ axes = NotCalled
    /\ RasterIdle
    /\ PipelineIdle

\* the dataset of a footprint the grid calculator returned
CallCreateRasterDataset ==
    /\ call = None
    /\ xy.status = "return"
    /\ xy.x_size >= 0 /\ xy.y_size >= 0
    /\ axes = NotCalled
    /\ axes' = raster_coords(xy.x_start, xy.y_start, xy.x_size, xy.y_size, resolution)
    /\ UNCHANGED <<cloud, resolution, xy, rasterVars, pipelineVars, constructVars, sizing, masking>>

AxesNext == CallComputeXyStartsAndSizes \/ CallCreateRasterDataset

SpecAxes == AxesInit /\ [][AxesNext]_vars

\* C11 as stated: the x axis has x_size entries x_i = x_start + r*(i + 0.5),
\* the y axis y_size entries y_j = y_start - r*(j + 0.5), the operations being
\* those of the float arithmetic.
C11_AxesAreCellCentres ==
    axes # NotCalled =>
        /\ Len(axes.x_values_1d) = xy.x_size
        /\ Len(axes.y_values_1d) = xy.y_size
        /\ \A i \in 0..(xy.x_size - 1) :
              axes.x_values_1d[i + 1] = FAdd(xy.x_start, TimesIntAndHalf(resolution, i))
        /\ \A j \in 0..(xy.y_size - 1) :
              axes.y_values_1d[j + 1] = FSub(xy.y_start, TimesIntAndHalf(resolution, j))

\* C11 amended: the x axis has x_size entries and the y axis y_size entries;
\* the first entry of each is the centre of the first cell, x_start + r/2 and
\* y_start - r/2, and entry i is the first entry plus i times the step, the
\* step being the float quotient of (stop - first) by the size, where stop is
\* x_start + r*(x_size + 0.5), respectively y_start - r*(y_size + 0.5).
C11_AxesAreEvenlySpacedFromFirstCentre ==
    axes # NotCalled =>
        LET x == axes.x_values_1d
            y == axes.y_values_1d
            x_stop == FAdd(xy.x_start, TimesIntAndHalf(resolution, xy.x_size))
            y_stop == FSub(xy.y_start, TimesIntAndHalf(resolution, xy.y_size))
        IN  /\ DOMAIN x = 1..xy.x_size
            /\ DOMAIN y = 1..xy.y_size
            /\ xy.x_size >= 1 => x[1] = FAdd(xy.x_start, TimesIntAndHalf(resolution, 0))
            /\ xy.y_size >= 1 => y[1] = FSub(xy.y_start, TimesIntAndHalf(resolution, 0))
            /\ \A i \in 1..(xy.x_size - 1) :
                  x[i + 1] = FAdd(Round(i * Round(FSub(x_stop, x[1]), xy.x_size), 1), x[1])
            /\ \A j \in 1..(xy.y_size - 1) :
                  y[j + 1] = FAdd(Round(j * Round(FSub(y_stop, y[1]), xy.y_size), 1), y[1])

\* C11 witness: the axes of a footprint of several columns and rows.
C11_Witness ==
    /\ axes # NotCalled
    /\ xy.x_size >= 2 /\ xy.y_size >= 2
    /\ Len(axes.x_values_1d) >= 2 /\ Len(axes.y_values_1d) >= 2

(***************************************************************************)
(* numpy arrays: a shape and the elements in C order.  The elements are    *)
(* NaN, a number, or a value the kernel computed for a cell and a band.    *)
(***************************************************************************)
NaN == [nan |-> TRUE]
Num(n) == [num |-> n]

RECURSIVE Prod(_)
Prod(shape) == IF Len(shape) = 0 THEN 1 ELSE Head(shape) * Prod(Tail(shape))

Front(s) == SubSeq(s, 1, Len(s) - 1)
LastDim(a) == a.shape[Len(a.shape)]

\* a[..., i]
TakeLast(a, i) ==
    LET L == LastDim(a)
    IN  [shape |-> Front(a.shape),
         data |-> [r \in 1..(Len(a.data) \div L) |-> a.data[(r - 1) * L + i + 1]]]

\* a[..., lo:hi]
SliceLast(a, lo, hi) ==
    LET L == LastDim(a)
        w == hi - lo
    IN  [shape |-> Append(Front(a.shape), w),
         data |-> [j \in 1..((Len(a.data) \div L) * w) |->
                      a.data[((j - 1) \div w) * L + lo + ((j - 1) % w) + 1]]]

\* a reshape that fills the new shape from the last element to the first
ReshapeBackwards(a, shape) ==
    LET known == Prod([i \in 1..Len(shape) |-> IF shape[i] = -1 THEN 1 ELSE shape[i]])
    IN  [shape |-> [i \in 1..Len(shape) |->
                      IF shape[i] = -1 THEN Len(a.data) \div known ELSE shape[i]],
         data |-> [k \in 1..Len(a.data) |-> a.data[Len(a.data) - k + 1]]]

\* a.reshape(shape): the elements keep their C order; one dimension may be -1
Reshape(a, shape) ==
    LET known == Prod([i \in 1..Len(shape) |-> IF shape[i] = -1 THEN 1 ELSE shape[i]])
    IN  [shape |-> [i \in 1..Len(shape) |->
                      IF shape[i] = -1 THEN Len(a.data) \div known ELSE shape[i]],
         data |-> a.data]

\* a[j, i] of a 2-d array
Item(a, j, i) == a.data[j * a.shape[2] + i + 1]

\* a.reshape(-1) of a 2-d array: row after row
Flatten(a) ==
    [k \in 1..(a.shape[1] * a.shape[2]) |->
        Item(a, (k - 1) \div a.shape[2], (k - 1) % a.shape[2])]

\* a[k] of a 2-d array
Row(a, k) ==
    LET W == a.shape[2]
    IN  [shape |-> <<W>>, data |-> SubSeq(a.data, k * W + 1, (k + 1) * W)]

\* np.rollaxis(a, 2) of a 3-d array: the last axis becomes the first
RollAxis(a) ==
    LET L == a.shape[3]
        P == a.shape[1] * a.shape[2]
    IN  [shape |-> <<L, a.shape[1], a.shape[2]>>,
         data |-> [j \in 1..(L * P) |-> a.data[((j - 1) % P) * L + ((j - 1) \div P) + 1]]]

\* np.nan_to_num(a, nan=nan)
nan_to_num(a, nan) ==
    [shape |-> a.shape,
     data |-> [i \in 1..Len(a.data) |-> IF a.data[i] = NaN THEN nan ELSE a.data[i]]]

(***************************************************************************)
(* Columns of a cloud.  A name is a root and an identifier: a name         *)
(* contains a substring exactly when the substring is its root.            *)
(***************************************************************************)
ColumnName(root, id) == [root |-> root, id |-> id]
Z == ColumnName("z", 0)
POINTS_CLOUD_CLR_KEY_ROOT == "clr"
POINTS_CLOUD_CONFIDENCE ==
    <<ColumnName("confidence_from", "ambiguity"),
      ColumnName("confidence_from", "intensity_std")>>

SubstringIn(substring, name) == name.root = substring

\* substring_in_list
substring_in_list(src_list, substring) ==
    LET res == SelectSeq(src_list, LAMBDA x : SubstringIn(substring, x))
    IN  Len(res) > 0

(***************************************************************************)
(* crasterize.pc_to_dsm: an external kernel.  For a grid of n cells and b  *)
(* value bands it returns out, mean and stdev of shape (n, b) and the two  *)
(* point counts of shape (n); a cell without contributing points holds NaN *)
(* in out, mean and stdev.  Which cells have contributing points is the    *)
(* kernel's affair: every set of cells is possible.                        *)
(***************************************************************************)
KernelValue(layer, cell, band) == [layer |-> layer, cell |-> cell, band |-> band]

KernelLayer(layer, filled, n, b) ==
    [shape |-> <<n, b>>,
     data |-> [j \in 1..(n * b) |->
                  IF ((j - 1) \div b) \in filled
                  THEN KernelValue(layer, (j - 1) \div b, (j - 1) % b)
                  ELSE NaN]]

KernelCount(layer, filled, n) ==
    [shape |-> <<n>>,
     data |-> [j \in 1..n |-> IF (j - 1) \in filled THEN KernelValue(layer, j - 1, 0) ELSE Num(0)]]

pc_to_dsm(filled, n, b) ==
    [status |-> "return",
     filled |-> filled,
     out |-> KernelLayer("out", filled, n, b),
     mean |-> KernelLayer("mean", filled, n, b),
     stdev |-> KernelLayer("stdev", filled, n, b),
     nb_pts_in_disc |-> KernelCount("nb_pts_in_disc", filled, n),
     nb_pts_in_cell |-> KernelCount("nb_pts_in_cell", filled, n)]

(***************************************************************************)
(* compute_vector_raster_and_stats                                         *)
(***************************************************************************)
clr_bands(cols) ==
    SelectSeq(cols, LAMBDA band : SubstringIn(POINTS_CLOUD_CLR_KEY_ROOT, band))

\* the confidence columns of the cloud, whatever layers are asked for
ConfidenceIndexUnrestricted(cols, list_computed_layers) ==
    SelectSeq(cols, LAMBDA key :
        \E i \in 1..Len(POINTS_CLOUD_CONFIDENCE) : key = POINTS_CLOUD_CONFIDENCE[i])

confidence_index(cols, list_computed_layers) ==
    IF /\ substring_in_list(cols, "confidence_from")
       /\ \/ list_computed_layers = None
          \/ substring_in_list(list_computed_layers.some, "confidence_from")
    THEN SelectSeq(cols, LAMBDA key :
             \E i \in 1..Len(POINTS_CLOUD_CONFIDENCE) : key = POINTS_CLOUD_CONFIDENCE[i])
    ELSE <<>>

values_bands(cols, list_computed_layers) ==
    <<Z>> \o clr_bands(cols) \o confidence_index(cols, list_computed_layers)

\* the confidence block of the kernel output as one row per confidence column
ConfidenceRows(confidences, n_conf) == Reshape(confidences, <<n_conf, -1>>)

compute_vector_raster_and_stats(cols, list_computed_layers, k) ==
    LET conf == confidence_index(cols, list_computed_layers)
        n_conf == Len(conf)
        b == LastDim(k.out)
        confidences == ConfidenceRows(SliceLast(k.out, b - n_conf, b), n_conf)
    IN  [out |-> IF n_conf > 0 THEN SliceLast(k.out, 0, b - n_conf) ELSE k.out,
         mean |-> k.mean,
         stdev |-> k.stdev,
         nb_pts_in_disc |-> k.nb_pts_in_disc,
         nb_pts_in_cell |-> k.nb_pts_in_cell,
         msk |-> None,
         confidences |->
             IF n_conf > 0
             THEN Some([key \in {conf[i] : i \in 1..n_conf} |->
                          Row(confidences, (CHOOSE i \in 1..n_conf : conf[i] = key) - 1)])
             ELSE None]

(***************************************************************************)
(* create_raster_dataset                                                   *)
(***************************************************************************)
create_raster_dataset(raster_in, hgt_no_data, color_no_data, mean, stdev, n_pts, n_in_cell, msk, confidences) ==
    LET n_layers == LastDim(raster_in)
    IN  [hgt |-> nan_to_num(TakeLast(raster_in, 0), hgt_no_data),
         img |-> IF n_layers > 1
                 THEN Some(nan_to_num(RollAxis(SliceLast(raster_in, 1, n_layers)),
                                      color_no_data))
                 ELSE None,
         hgt_mean |-> TakeLast(mean, 0),
         hgt_stdev |-> TakeLast(stdev, 0),
         band_mean |-> [i_layer \in 1..(n_layers - 1) |-> TakeLast(mean, i_layer)],
         band_stdev |-> [i_layer \in 1..(n_layers - 1) |-> TakeLast(stdev, i_layer)],
         n_pts |-> n_pts,
         pts_in_cell |-> n_in_cell,
         msk |-> msk,
         confidences |-> confidences]

(***************************************************************************)
(* rasterize                                                               *)
(***************************************************************************)
NoPointsAtMostOne(data_valid) == Len(data_valid) <= 1
\* np.size(data_valid) == 0
NoPoints(data_valid) == Len(data_valid) = 0

\* the grid with its rows and columns exchanged
ShapeOutTransposed(x_size, y_size) == <<x_size, y_size>>
\* shape_out = (y_size, x_size)
ShapeOut(x_size, y_size) == <<y_size, x_size>>

rasterize(c, cols, x_size, y_size, hgt_no_data, color_no_data, list_computed_layers, k) ==
    IF NoPoints(c)
    THEN [status |-> "return", value |-> None]
    ELSE LET r == compute_vector_raster_and_stats(cols, list_computed_layers, k)
             shape_out == ShapeOut(x_size, y_size)
             out == Reshape(r.out, Append(shape_out, -1))
             mean == Reshape(r.mean, Append(shape_out, -1))
             stdev == Reshape(r.stdev, Append(shape_out, -1))
             n_pts == Reshape(r.nb_pts_in_disc, shape_out)
             n_in_cell == Reshape(r.nb_pts_in_cell, shape_out)
             confidences ==
                 IF r.confidences # None
                 THEN Some([key \in DOMAIN r.confidences.some |->
                              Reshape(r.confidences.some[key], shape_out)])
                 ELSE None
         IN  [status |-> "return",
              value |-> Some(create_raster_dataset(out, hgt_no_data, color_no_data,
                                                   mean, stdev, n_pts, n_in_cell,
                                                   r.msk, confidences))]

(***************************************************************************)
(* simple_rasterization_dataset_wrapper                                    *)
(***************************************************************************)
\* xmin / resolution with a resolution that is None
DivisionByNone == [status |-> "raise", error |-> "TypeError"]
\* compute_xy_starts_and_sizes(resolution, cloud) with the resolution of the
\* wrapper, which may be None: np.nanmin comes before the first division
FootprintOfCloud(res, c) ==
    IF res # None THEN compute_xy_starts_and_sizes(res.some, c)
    ELSE IF Len(c) = 0 THEN ZeroSizeReduction
    ELSE DivisionByNone

\* lines 123-129: roi
WrapperRoi(res, a) ==
    /\ res # None
    /\ a.x_start # None
    /\ a.y_start # None
    /\ a.x_size # None
    /\ a.y_size # None

\* the footprint the wrapper rasterizes on
WrapperFootprint(c, res, a) ==
    IF ~WrapperRoi(res, a)
    THEN FootprintOfCloud(res, c)
    ELSE [status |-> "return", x_start |-> a.x_start.some, y_start |-> a.y_start.some,
          x_size |-> a.x_size.some, y_size |-> a.y_size.some]

simple_rasterization_dataset_wrapper(c, cols, res, a, k) ==
    LET fp == WrapperFootprint(c, res, a)
    IN  IF fp.status = "raise"
        THEN fp
        ELSE rasterize(c, cols, fp.x_size, fp.y_size, a.hgt_no_data, a.color_no_data,
                       a.list_computed_layers, k)

(***************************************************************************)
(* Rasterization calls.                                                    *)
(***************************************************************************)
RasterizeDefaults == [hgt_no_data |-> Num(-32768), color_no_data |-> Num(0)]
WrapperDefaults == [hgt_no_data |-> NaN, color_no_data |-> NaN]
HgtNoData == {RasterizeDefaults.hgt_no_data, WrapperDefaults.hgt_no_data}
ColorNoData == {RasterizeDefaults.color_no_data, WrapperDefaults.color_no_data}

Footprints ==
    {[x_start |-> Some(0), y_start |-> Some(0), x_size |-> Some(w), y_size |-> Some(h)] :
        w \in 1..MaxCells, h \in 1..MaxCells}
NoFootprint == [x_start |-> None, y_start |-> None, x_size |-> None, y_size |-> None]

ListComputedLayers ==
    {None, Some(<<>>), Some(<<ColumnName("confidence_from", "ambiguity")>>)}

ClrColumns(n) == [i \in 1..n |-> ColumnName(POINTS_CLOUD_CLR_KEY_ROOT, i - 1)]
\* a column named like a confidence that is none of POINTS_CLOUD_CONFIDENCE
OtherConfidence == ColumnName("confidence_from", "other")
ConfidenceColumns ==
    {<<>>, <<POINTS_CLOUD_CONFIDENCE[1]>>, <<POINTS_CLOUD_CONFIDENCE[2]>>,
     <<OtherConfidence>>, <<OtherConfidence, POINTS_CLOUD_CONFIDENCE[1]>>,
     <<POINTS_CLOUD_CONFIDENCE[1], POINTS_CLOUD_CONFIDENCE[2]>>,
     <<POINTS_CLOUD_CONFIDENCE[2], POINTS_CLOUD_CONFIDENCE[1]>>}
ColumnChoices == {ClrColumns(n) \o conf : n \in 0..MaxClr, conf \in ConfidenceColumns}

Calls ==
    {[entry |-> e, resolution |-> Some(ResMax),
      x_start |-> f.x_start, y_start |-> f.y_start,
      x_size |-> f.x_size, y_size |-> f.y_size,
      hgt_no_data |-> h, color_no_data |-> cn, list_computed_layers |-> l] :
        e \in {"rasterize", "wrapper"},
        f \in {g \in Footprints : g.x_size.some * g.y_size.some <= MaxCells} \cup {NoFootprint},
        h \in HgtNoData, cn \in ColorNoData, l \in ListComputedLayers}

\* rows of the clouds handed to the rasterization entry points
RasterPoint == [x |-> CellCentre(0), y |-> CellCentre(-1)]
RasterClouds == SeqsUpTo({RasterPoint}, MaxPts)

RasterInit ==
    /\ cloud \in RasterClouds
    /\ resolution = ResMax
    /\ xy = NotCalled
    /\ axes = NotCalled
    /\ columns \in ColumnChoices
    /\ call \in {a \in Calls : a.entry = "rasterize" => a.x_start # None}
    /\ kernel = NotCalled
    /\ raster = NotCalled
    /\ PipelineIdle

\* the kernel results possible for a call on n cells with b bands, or no
\* invocation at all when the cloud has no rows
KernelResults(c, n, b) ==
    IF NoPoints(c) THEN {NotCalled}
    ELSE {pc_to_dsm(filled, n, b) : filled \in SUBSET (0..(n - 1))}

CallRasterize ==
    /\ call # None
    /\ call.entry = "rasterize"
    /\ raster = NotCalled
    /\ \E k \in KernelResults(cloud, call.x_size.some * call.y_size.some,
                              Len(values_bands(columns, call.list_computed_layers))) :
          /\ kernel' = k
          /\ raster' = rasterize(cloud, columns, call.x_size.some, call.y_size.some,
                                 call.hgt_no_data, call.color_no_data,
                                 call.list_computed_layers, k)
    /\ UNCHANGED <<gridVars, columns, call, pipelineVars, constructVars, sizing, masking>>

CallWrapper ==
    /\ call # None
    /\ call.entry = "wrapper"
    /\ raster = NotCalled
    /\ LET fp == WrapperFootprint(cloud, call.resolution, call)
       IN  /\ xy' = IF WrapperRoi(call.resolution, call) THEN xy ELSE fp
           /\ IF fp.status = "raise"
              THEN /\ raster' = fp
                   /\ UNCHANGED kernel
              ELSE \E k \in KernelResults(cloud, fp.x_size * fp.y_size,
                                          Len(values_bands(columns, call.list_computed_layers))) :
                      /\ kernel' = k
                      /\ raster' = simple_rasterization_dataset_wrapper(
                                       cloud, columns, call.resolution, call, k)
    /\ UNCHANGED <<cloud, resolution, axes, columns, call, pipelineVars, constructVars, sizing, masking>>

RasterNext == CallRasterize \/ CallWrapper

SpecRaster == RasterInit /\ [][RasterNext]_vars

\* the wrapper called with any of its footprint arguments and its resolution
\* given or left at None, on clouds without colour or confidence
OptionalSizes == {None} \cup {Some(n) : n \in 1..MaxCells}
WrapperCalls ==
    {[entry |-> "wrapper", resolution |-> r,
      x_start |-> xs, y_start |-> ys, x_size |-> xz, y_size |-> yz,
      hgt_no_data |-> WrapperDefaults.hgt_no_data,
      color_no_data |-> WrapperDefaults.color_no_data,
      list_computed_layers |-> None] :
        r \in {None, Some(ResMax)},
        xs \in {None, Some(0)}, ys \in {None, Some(0)},
        xz \in OptionalSizes, yz \in OptionalSizes}

WrapperInit ==
    /\ cloud \in RasterClouds
    /\ resolution = ResMax
    /\ xy = NotCalled
    /\ axes = NotCalled
    /\ columns = <<>>
    /\ call \in {a \in WrapperCalls :
                    (a.x_size # None /\ a.y_size # None) =>
                        a.x_size.some * a.y_size.some <= MaxCells}
    /\ kernel = NotCalled
    /\ raster = NotCalled
    /\ PipelineIdle

SpecWrapper == WrapperInit /\ [][CallWrapper]_vars

(***************************************************************************)
(* Claims about rasterize and the dataset it returns.                      *)
(***************************************************************************)
Returned == raster.status = "return" /\ raster.value # None
\* the footprint of the call in progress
CallFootprint ==
    IF call.entry = "wrapper" THEN WrapperFootprint(cloud, call.resolution, call)
    ELSE [status |-> "return", x_start |-> call.x_start.some, y_start |-> call.y_start.some,
          x_size |-> call.x_size.some, y_size |-> call.y_size.some]
NCells == CallFootprint.x_size * CallFootprint.y_size
EmptyCells == (0..(NCells - 1)) \ kernel.filled
\* the layers of a dataset that carry heights, colours and their statistics
HeightLayers(ds) == {ds.hgt, ds.hgt_mean, ds.hgt_stdev}
ColourLayers(ds) ==
    (IF ds.img = None THEN {}
     ELSE {[shape |-> Tail(ds.img.some.shape),
            data |-> SubSeq(ds.img.some.data, (b - 1) * NCells + 1, b * NCells)] :
               b \in 1..ds.img.some.shape[1]})
    \cup {ds.band_mean[i] : i \in DOMAIN ds.band_mean}
    \cup {ds.band_stdev[i] : i \in DOMAIN ds.band_stdev}
HasNaN(a) == \E i \in 1..Len(a.data) : a.data[i] = NaN

\* C3: in the returned dataset every cell without contributing points holds
\* the configured no-data sentinel in the height, in each colour band and in
\* the mean and standard-deviation layers, and no layer contains NaN,
\* whatever sentinels the entry points were given.
C3_NoDataCellsHoldSentinel ==
    Returned =>
        LET ds == raster.value.some
        IN  /\ \A cell \in EmptyCells :
                  /\ \A a \in HeightLayers(ds) : a.data[cell + 1] = call.hgt_no_data
                  /\ \A a \in ColourLayers(ds) : a.data[cell + 1] = call.color_no_data
            /\ \A a \in HeightLayers(ds) \cup ColourLayers(ds) : ~HasNaN(a)

\* C4: rasterize on a cloud of zero rows returns None without invoking the
\* kernel and without raising, whatever the footprint and the parameters;
\* on a cloud of one or more rows it never returns None.
C4_NoneExactlyForEmptyCloud ==
    (call # None /\ raster # NotCalled /\ call.entry = "rasterize") =>
        /\ Len(cloud) = 0 =>
              (raster = [status |-> "return", value |-> None] /\ kernel = NotCalled)
        /\ Len(cloud) >= 1 => ~(raster.status = "return" /\ raster.value = None)

\* C4 witness: rasterize was called on a cloud of zero rows and returned.
C4_Witness ==
    /\ call # None
    /\ call.entry = "rasterize"
    /\ Len(cloud) = 0
    /\ raster.status = "return"

\* C21: the wrapper called on a cloud of zero points returns None, the
\* "no output for this tile" result, and does not raise, whether the caller
\* gives the footprint or leaves it to be derived from the cloud.
C21_WrapperSkipsEmptyCloud ==
    (call # None /\ call.entry = "wrapper" /\ raster # NotCalled /\ Len(cloud) = 0) =>
        raster = [status |-> "return", value |-> None]

WrapperCalled == call # None /\ call.entry = "wrapper" /\ raster # NotCalled
\* all four values of the footprint are given
FootprintGiven ==
    call.x_start # None /\ call.y_start # None /\ call.x_size # None /\ call.y_size # None
\* the grid a returned dataset is on
RasterShape == raster.value.some.hgt.shape

\* with a resolution, the wrapper rasterizes on the caller's footprint exactly
\* when all four values are given, and otherwise on the footprint of the
\* cloud's extent, whatever values are given
FootprintFrameWithResolution ==
    (WrapperCalled /\ call.resolution # None /\ Len(cloud) > 0) =>
        IF FootprintGiven
        THEN /\ xy = NotCalled
             /\ Returned
             /\ RasterShape = <<call.y_size.some, call.x_size.some>>
        ELSE /\ xy = compute_xy_starts_and_sizes(call.resolution.some, cloud)
             /\ Returned
             /\ RasterShape = <<xy.y_size, xy.x_size>>

\* without a resolution the four values are recomputed from the cloud's
\* extent all the same
FootprintRecomputedWithoutResolution ==
    (WrapperCalled /\ call.resolution = None /\ Len(cloud) > 0) =>
        /\ xy.status = "return"
        /\ Returned
        /\ RasterShape = <<xy.y_size, xy.x_size>>

\* C24: the wrapper rasterizes on the caller's footprint unchanged exactly
\* when the four values and the resolution are given; when any of the five is
\* missing the four values are recomputed from the extent of the cloud and
\* the values given are discarded.
C24_CallerFootprintOnlyWhenComplete ==
    /\ FootprintFrameWithResolution
    /\ FootprintRecomputedWithoutResolution

\* C10: each named confidence layer holds at (row j, column i) the kernel
\* output of flat cell j*x_size + i in that confidence column, for any number
\* of confidence columns, and no confidence column is left in the
\* height/colour block.
C10_ConfidenceLayersFollowCells ==
    (Returned /\ raster.value.some.confidences # None) =>
        LET ds == raster.value.some
            conf == confidence_index(columns, call.list_computed_layers)
            n_conf == Len(conf)
            b == LastDim(kernel.out)
            x_size == CallFootprint.x_size
            y_size == CallFootprint.y_size
        IN  /\ \A kk \in 1..n_conf :
                  LET layer == ds.confidences.some[conf[kk]]
                  IN  /\ layer.shape = <<y_size, x_size>>
                      /\ \A j \in 0..(y_size - 1), i \in 0..(x_size - 1) :
                            layer.data[j * x_size + i + 1] =
                               kernel.out.data[(j * x_size + i) * b + (b - n_conf + kk - 1) + 1]
            /\ \A a \in {ds.hgt} \cup (IF ds.img = None THEN {} ELSE {ds.img.some}) :
                  \A p \in 1..Len(a.data) :
                     a.data[p] \in {NaN, call.hgt_no_data, call.color_no_data}
                        \/ a.data[p].band < b - n_conf

\* the recognized confidence columns the cloud carries
RecognizedConfidences ==
    {columns[i] : i \in 1..Len(columns)}
        \cap {POINTS_CLOUD_CONFIDENCE[i] : i \in 1..Len(POINTS_CLOUD_CONFIDENCE)}
\* no layer list is given, or the list has a confidence entry
ConfidenceRequested ==
    \/ call.list_computed_layers = None
    \/ \E i \in 1..Len(call.list_computed_layers.some) :
          call.list_computed_layers.some[i].root = "confidence_from"
ColourColumns == {i \in 1..Len(columns) : columns[i].root = POINTS_CLOUD_CLR_KEY_ROOT}

\* C22: a returned dataset has confidence layers exactly when the cloud
\* carries a recognized confidence column and the layer list is absent or has
\* a confidence entry, one layer per recognized column; otherwise it has none
\* and the kernel was given the height and the colour bands only.
C22_ConfidenceLayersExactlyWhenAsked ==
    Returned =>
        LET ds == raster.value.some
        IN  IF RecognizedConfidences # {} /\ ConfidenceRequested
            THEN /\ ds.confidences # None
                 /\ DOMAIN ds.confidences.some = RecognizedConfidences
                 /\ LastDim(kernel.out) =
                       1 + Cardinality(ColourColumns) + Cardinality(RecognizedConfidences)
            ELSE /\ ds.confidences = None
                 /\ LastDim(kernel.out) = 1 + Cardinality(ColourColumns)
                 /\ (ds.img = None) = (ColourColumns = {})
                 /\ ds.img # None => ds.img.some.shape[1] = Cardinality(ColourColumns)

\* C22 witnesses: a cloud with a recognized confidence column and a layer
\* list without confidence entry gives no confidence layer
C22_Witness ==
    /\ Returned
    /\ RecognizedConfidences # {}
    /\ call.list_computed_layers = Some(<<>>)
    /\ ColourColumns # {}
    /\ raster.value.some.confidences = None

\* the layers of a dataset that have the two dimensions (y, x)
PlaneLayers(ds) ==
    {ds.hgt, ds.hgt_mean, ds.hgt_stdev, ds.n_pts, ds.pts_in_cell}
    \cup {ds.band_mean[i] : i \in DOMAIN ds.band_mean}
    \cup {ds.band_stdev[i] : i \in DOMAIN ds.band_stdev}
    \cup (IF ds.msk = None THEN {} ELSE {ds.msk.some})
    \cup (IF ds.confidences = None THEN {}
          ELSE {ds.confidences.some[key] : key \in DOMAIN ds.confidences.some})

\* C12: every layer of a returned dataset has the spatial shape
\* (y_size, x_size) and holds one value per cell; the colour image has that
\* shape after its band dimension.
C12_LayersHaveGridShape ==
    Returned =>
        LET ds == raster.value.some
            grid == <<CallFootprint.y_size, CallFootprint.x_size>>
        IN  /\ \A a \in PlaneLayers(ds) : a.shape = grid /\ Len(a.data) = NCells
            /\ ds.img # None =>
                  /\ Tail(ds.img.some.shape) = grid
                  /\ Len(ds.img.some.data) = ds.img.some.shape[1] * NCells

\* C12 witness: a dataset with colour and confidence layers on a grid that
\* has more columns than rows, and one on a grid with more rows than columns.
C12_Witness ==
    /\ Returned
    /\ CallFootprint.x_size # CallFootprint.y_size
    /\ raster.value.some.img # None
    /\ raster.value.some.confidences # None

\* the per-cell arrays of the kernel, each with the layer rasterize makes of it
ReshapedCounts(ds) ==
    {[flat |-> kernel.nb_pts_in_disc, grid |-> ds.n_pts],
     [flat |-> kernel.nb_pts_in_cell, grid |-> ds.pts_in_cell]}

\* C18: a per-cell array of the kernel, reshaped by rasterize to
\* (y_size, x_size), holds at row j and column i the element j*x_size + i of
\* the flat array, and read back row after row it is the flat array again.
C18_ReshapeRoundTrip ==
    (Returned /\ kernel # NotCalled) =>
        \A p \in ReshapedCounts(raster.value.some) :
            /\ Len(p.flat.data) = NCells
            /\ \A j \in 0..(CallFootprint.y_size - 1), i \in 0..(CallFootprint.x_size - 1) :
                  Item(p.grid, j, i) = p.flat.data[j * CallFootprint.x_size + i + 1]
            /\ Flatten(p.grid) = p.flat.data

\* C18 witness: a grid of two rows and two columns whose first cell of the
\* second row alone holds points; the flat element 1*x_size + 0 is found at
\* row 1, column 0 and not at row 0, column 1
C18_Witness ==
    /\ Returned
    /\ kernel # NotCalled
    /\ CallFootprint.y_size = 2
    /\ CallFootprint.x_size = 2
    /\ kernel.filled = {2}
    /\ Item(raster.value.some.n_pts, 1, 0) = KernelValue("nb_pts_in_disc", 2, 0)
    /\ Item(raster.value.some.n_pts, 0, 1) = Num(0)

(***************************************************************************)
(* PointCloudsToDsmPipeline: the state after construction.                 *)
(***************************************************************************)
PipelineNames ==
    {"dense_point_clouds_to_dense_dsm_no_merging", "dense_point_clouds_to_dense_dsm"}

\* "no_merging" in self.used_conf[PIPELINE]
NoMergingNever(name) == FALSE
NoMerging(name) == name = "dense_point_clouds_to_dense_dsm_no_merging"

\* what get_optimal_tile_size may answer: run puts no condition on it
Widths == 0..MaxWidth
Margins == 0..MaxMargin
\* the coordinate system compute_epsg_from_point_cloud finds in the input
EpsgCloud == "utm"
\* self.output[EPSG]: not given, the clouds' own system, or another one
OutputEpsg == {None, Some("utm"), Some("wgs84")}

Pipelines ==
    {[used_conf |-> [pipeline |-> name],
      output |-> [epsg |-> epsg],
      inputs |-> [point_clouds |-> "point_clouds"],
      pc_outliers_removing_1_app |-> [on_ground_margin |-> m1],
      pc_outliers_removing_2_app |-> [on_ground_margin |-> m2],
      rasterization_application |-> [margins |-> mr, resolution |-> res]] :
        name \in PipelineNames, epsg \in OutputEpsg,
        m1 \in Margins, m2 \in Margins, mr \in Margins, res \in Resolutions}

\* an orchestrator before run enters its with block, for the tiles of a terrain
Orchestrator(tiles) ==
    [tiles |-> tiles, tasks |-> [t \in tiles |-> "none"],
     entered |-> FALSE, written |-> FALSE]

NoLocals ==
    [epsg |-> None, epsg_cloud |-> None, terrain_bounds |-> None,
     list_epipolar_points_cloud |-> None,
     max_number_superposing_point_clouds |-> None,
     average_distance_point_cloud |-> None,
     optimal_terrain_tile_width |-> None,
     merged_points_clouds |-> None,
     filtered_1_merged_points_clouds |-> None,
     filtered_2_merged_points_clouds |-> None,
     point_cloud_to_rasterize |-> None]

PipelineInit ==
    /\ cloud = <<>>
    /\ resolution = ResMax
    /\ xy = NotCalled
    /\ axes = NotCalled
    /\ RasterIdle
    /\ ConstructIdle
    /\ self \in Pipelines
    /\ pc = "start"
    /\ locals = NoLocals
    /\ calls = <<>>
    /\ orch = Orchestrator(1..1)

(***************************************************************************)
(* Collaborators of run.                                                   *)
(***************************************************************************)
\* the cluster's checked_conf_cluster["max_ram_per_worker"]
MaxRamPerWorker == [of |-> "max_ram_per_worker"]
\* what a stage's run returns for an input
Produced(stage, input) == [by |-> stage, from |-> input]
\* a tile width in the units of a coordinate system
TileWidth(w, epsg) == [value |-> w, epsg |-> epsg]

\* preprocessing.convert_optimal_tile_size_with_epsg
convert_optimal_tile_size_with_epsg(terrain_bounds, width, epsg, epsg_cloud) ==
    IF epsg = epsg_cloud THEN width
    ELSE [value |-> width.value, epsg |-> epsg, converted_from |-> width.epsg,
          at |-> terrain_bounds]

\* python's min of three
Min3OfFirstTwo(a, b, c) == IF b < a THEN b ELSE a
Min3(a, b, c) ==
    LET ab == IF b < a THEN b ELSE a
    IN  IF c < ab THEN c ELSE ab

\* the margins argument of the fusion stage
FusionMarginsWithoutRaster(m1, m2, mr) == m1 + m2
FusionMargins(m1, m2, mr) == m1 + m2 + mr

(***************************************************************************)
(* PointCloudsToDsmPipeline.run, one action per stage.                     *)
(***************************************************************************)
\* lines 286-327: used configuration saved, orchestrator started, epsg chosen
StartRun ==
    /\ pc = "start"
    /\ locals' = [locals EXCEPT
          !.epsg_cloud = Some(EpsgCloud),
          !.epsg = IF self.output.epsg = None THEN Some(EpsgCloud) ELSE self.output.epsg]
    /\ calls' = calls \o <<[op |-> "compute_epsg_from_point_cloud",
                            input |-> self.inputs.point_clouds]>>
    /\ pc' = IF NoMerging(self.used_conf.pipeline) THEN "no_merging" ELSE "transform"
    /\ orch' = [orch EXCEPT !.entered = TRUE]
    /\ UNCHANGED <<gridVars, rasterVars, constructVars, sizing, masking, self>>

\* lines 329-350: the no_merging branch
GeneratePointClouds ==
    /\ pc = "no_merging"
    /\ LET terrain_bounds == Produced("get_bounds", self.inputs.point_clouds)
           list_epipolar_points_cloud ==
               Produced("generate_point_clouds", self.inputs.point_clouds)
       IN  /\ locals' = [locals EXCEPT
                 !.terrain_bounds = terrain_bounds,
                 !.list_epipolar_points_cloud = list_epipolar_points_cloud,
                 !.point_cloud_to_rasterize =
                     <<list_epipolar_points_cloud, terrain_bounds>>]
           /\ calls' = calls \o
                 <<[op |-> "get_bounds", input |-> self.inputs.point_clouds],
                   [op |-> "generate_point_clouds", input |-> self.inputs.point_clouds]>>
    /\ pc' = "rasterize"
    /\ UNCHANGED <<gridVars, rasterVars, constructVars, sizing, masking, self, orch>>

\* lines 353-377: terrain bounds, transformed clouds, density of the clouds
TransformInputPc ==
    /\ pc = "transform"
    /\ LET list_by_tiles == Produced("transform_input_pc", self.inputs.point_clouds)
       IN  /\ locals' = [locals EXCEPT
                 !.terrain_bounds = Produced("terrain_bounds", self.inputs.point_clouds),
                 !.list_epipolar_points_cloud = list_by_tiles,
                 !.max_number_superposing_point_clouds =
                     Produced("compute_max_nb_point_clouds", list_by_tiles),
                 !.average_distance_point_cloud =
                     Produced("compute_average_distance", list_by_tiles)]
           /\ calls' = calls \o
                 <<[op |-> "transform_input_pc", input |-> self.inputs.point_clouds],
                   [op |-> "compute_max_nb_point_clouds", input |-> list_by_tiles],
                   [op |-> "compute_average_distance", input |-> list_by_tiles]>>
    /\ pc' = "tile_width"
    /\ UNCHANGED <<gridVars, rasterVars, constructVars, sizing, masking, self, orch>>

\* a call of an application's get_optimal_tile_size and what it answered
OptimalTileSizeCall(app, l, w) ==
    [op |-> "get_optimal_tile_size", app |-> app,
     max_ram_per_worker |-> MaxRamPerWorker,
     superposing_point_clouds |-> l.max_number_superposing_point_clouds,
     point_cloud_resolution |-> l.average_distance_point_cloud,
     result |-> w]

\* lines 378-406: the minimum of the widths the applications report
ComputeOptimalTileWidth ==
    /\ pc = "tile_width"
    /\ \E w1 \in Widths, w2 \in Widths, wr \in Widths :
          /\ locals' = [locals EXCEPT
                !.optimal_terrain_tile_width =
                    TileWidth(Min3(w1, w2, wr), locals.epsg_cloud.some)]
          /\ calls' = calls \o
                <<OptimalTileSizeCall("pc_outliers_removing_1_app", locals, w1),
                  OptimalTileSizeCall("pc_outliers_removing_2_app", locals, w2),
                  OptimalTileSizeCall("rasterization_application", locals, wr)>>
    /\ pc' = "convert"
    /\ UNCHANGED <<gridVars, rasterVars, constructVars, sizing, masking, self, orch>>

\* lines 407-415: the width in the units of the output coordinate system
ConvertOptimalTileWidth ==
    /\ pc = "convert"
    /\ LET converted == convert_optimal_tile_size_with_epsg(
                            locals.terrain_bounds, locals.optimal_terrain_tile_width,
                            locals.epsg.some, locals.epsg_cloud.some)
       IN  /\ locals' = [locals EXCEPT !.optimal_terrain_tile_width = converted]
           /\ calls' = calls \o
                 <<[op |-> "convert_optimal_tile_size_with_epsg",
                    input |-> locals.optimal_terrain_tile_width, result |-> converted]>>
    /\ pc' = "fusion"
    /\ UNCHANGED <<gridVars, rasterVars, constructVars, sizing, masking, self, orch>>

\* lines 417-443: the fusion stage, its margins evaluated first
RunFusion ==
    /\ pc = "fusion"
    /\ LET res == self.rasterization_application.resolution
           m1 == self.pc_outliers_removing_1_app.on_ground_margin
           m2 == self.pc_outliers_removing_2_app.on_ground_margin
           mr == self.rasterization_application.margins
           merged == Produced("pc_fusion_application", locals.list_epipolar_points_cloud)
       IN  /\ locals' = [locals EXCEPT !.merged_points_clouds = merged]
           /\ calls' = calls \o
                 <<[op |-> "get_on_ground_margin", app |-> "pc_outliers_removing_1_app",
                    resolution |-> res, result |-> m1],
                   [op |-> "get_on_ground_margin", app |-> "pc_outliers_removing_2_app",
                    resolution |-> res, result |-> m2],
                   [op |-> "get_margins", app |-> "rasterization_application",
                    result |-> mr],
                   [op |-> "run", app |-> "pc_fusion_application",
                    input |-> locals.list_epipolar_points_cloud,
                    terrain_bounds |-> locals.terrain_bounds,
                    epsg |-> locals.epsg.some,
                    margins |-> FusionMargins(m1, m2, mr),
                    optimal_terrain_tile_width |-> locals.optimal_terrain_tile_width,
                    result |-> merged]>>
    /\ pc' = "outliers_1"
    /\ UNCHANGED <<gridVars, rasterVars, constructVars, sizing, masking, self, orch>>

\* lines 445-451: first outlier removal
RunOutliersRemoving1 ==
    /\ pc = "outliers_1"
    /\ LET filtered == Produced("pc_outliers_removing_1_app", locals.merged_points_clouds)
       IN  /\ locals' = [locals EXCEPT !.filtered_1_merged_points_clouds = filtered]
           /\ calls' = calls \o
                 <<[op |-> "run", app |-> "pc_outliers_removing_1_app",
                    input |-> locals.merged_points_clouds, result |-> filtered]>>
    /\ pc' = "outliers_2"
    /\ UNCHANGED <<gridVars, rasterVars, constructVars, sizing, masking, self, orch>>

\* the cloud handed to the second outlier removal
Outliers2InputMerged(l) == l.merged_points_clouds
Outliers2Input(l) == l.filtered_1_merged_points_clouds

\* lines 453-465: second outlier removal
RunOutliersRemoving2 ==
    /\ pc = "outliers_2"
    /\ LET filtered == Produced("pc_outliers_removing_2_app", Outliers2Input(locals))
       IN  /\ locals' = [locals EXCEPT
                 !.filtered_2_merged_points_clouds = filtered,
                 !.point_cloud_to_rasterize = filtered]
           /\ calls' = calls \o
                 <<[op |-> "run", app |-> "pc_outliers_removing_2_app",
                    input |-> Outliers2Input(locals), result |-> filtered]>>
    /\ pc' = "rasterize"
    /\ UNCHANGED <<gridVars, rasterVars, constructVars, sizing, masking, self, orch>>

\* lines 467-488: rasterization
RunRasterization ==
    /\ pc = "rasterize"
    /\ calls' = calls \o
          <<[op |-> "run", app |-> "rasterization_application",
             input |-> locals.point_cloud_to_rasterize, epsg |-> locals.epsg.some,
             result |-> Produced("rasterization_application",
                                 locals.point_cloud_to_rasterize)]>>
    /\ orch' = [orch EXCEPT !.tasks = [t \in orch.tiles |-> "pending"]]
    /\ pc' = "exit"
    /\ UNCHANGED <<gridVars, rasterVars, constructVars, sizing, masking, self, locals>>

\* a tile task of the rasterization ends on a worker, with a complete patch
\* or with no output for its tile
TileTask ==
    /\ orch # None
    /\ \E t \in orch.tiles :
          /\ orch.tasks[t] = "pending"
          /\ \E out \in {"patch", "no_output"} :
                orch' = [orch EXCEPT !.tasks[t] = out]
    /\ UNCHANGED <<gridVars, rasterVars, constructVars, sizing, masking, self, pc, locals, calls>>

\* the with block is left immediately, whatever the tile tasks
NoPendingTaskIgnored(o) == TRUE
\* the orchestrator waits for every task it was given
NoPendingTask(o) == \A t \in o.tiles : o.tasks[t] # "pending"

\* lines 295-303, end of the with block: the orchestrator computes what is
\* left, writes the final raster, and run returns
OrchestratorExit ==
    /\ pc = "exit"
    /\ NoPendingTask(orch)
    /\ orch' = [orch EXCEPT !.written = TRUE]
    /\ pc' = "done"
    /\ UNCHANGED <<gridVars, rasterVars, constructVars, sizing, masking, self, locals, calls>>

PipelineNext ==
    \/ StartRun
    \/ GeneratePointClouds
    \/ TransformInputPc
    \/ ComputeOptimalTileWidth
    \/ ConvertOptimalTileWidth
    \/ RunFusion
    \/ RunOutliersRemoving1
    \/ RunOutliersRemoving2
    \/ RunRasterization
    \/ TileTask
    \/ OrchestratorExit

SpecPipeline == PipelineInit /\ [][PipelineNext]_vars

\* the same run on a terrain of up to MaxTiles tiles, for pipelines whose
\* applications ask for no margin
BarrierInit ==
    /\ cloud = <<>>
    /\ resolution = ResMax
    /\ xy = NotCalled
    /\ axes = NotCalled
    /\ RasterIdle
    /\ ConstructIdle
    /\ self \in {p \in Pipelines :
                  /\ p.pc_outliers_removing_1_app.on_ground_margin = 0
                  /\ p.pc_outliers_removing_2_app.on_ground_margin = 0
                  /\ p.rasterization_application.margins = 0
                  /\ p.rasterization_application.resolution = ResMax}
    /\ pc = "start"
    /\ locals = NoLocals
    /\ calls = <<>>
    /\ \E n \in 0..MaxTiles : orch = Orchestrator(1..n)

SpecBarrier == BarrierInit /\ [][PipelineNext]_vars

(***************************************************************************)
(* Claims about PointCloudsToDsmPipeline.run.                              *)
(***************************************************************************)
Running == pc # "idle"
Merging == self.used_conf.pipeline = "dense_point_clouds_to_dense_dsm"
\* the stage runs made so far, in order
StageRuns == SelectSeq(calls, LAMBDA e : e.op = "run")
StageOrder ==
    <<"pc_fusion_application", "pc_outliers_removing_1_app",
      "pc_outliers_removing_2_app", "rasterization_application">>
CallsOf(op) == SelectSeq(calls, LAMBDA e : e.op = op)
CallsOfApp(op, app) == SelectSeq(CallsOf(op), LAMBDA e : e.app = app)

\* C6: in the merging pipeline the stages run in the order fusion, first
\* outlier removal, second outlier removal, rasterization; each one consumes
\* the output of the one before it, none runs twice and none is skipped.
C6_StagesInStrictOrder ==
    (Running /\ Merging) =>
        /\ Len(StageRuns) <= 4
        /\ \A i \in 1..Len(StageRuns) : StageRuns[i].app = StageOrder[i]
        /\ \A i \in 2..Len(StageRuns) : StageRuns[i].input = StageRuns[i - 1].result
        /\ Len(StageRuns) >= 1 =>
              StageRuns[1].input = Produced("transform_input_pc", self.inputs.point_clouds)
        /\ pc = "done" => Len(StageRuns) = 4

\* C6 witness: a run of the merging pipeline is over, its four stages done.
C6_Witness == Running /\ Merging /\ pc = "done" /\ Len(StageRuns) = 4

\* C7: when the pipeline name selects no_merging, run never invokes the
\* fusion stage, an outlier-removal stage, the tile-width computation or the
\* margin computation, and the rasterizer receives the unfused source clouds
\* with the terrain bounds; otherwise the three stages are all invoked.
C7_NoMergingSkipsStages ==
    Running =>
        IF self.used_conf.pipeline = "dense_point_clouds_to_dense_dsm_no_merging"
        THEN /\ \A i \in 1..Len(calls) :
                   /\ calls[i].op \notin
                         {"get_optimal_tile_size", "convert_optimal_tile_size_with_epsg",
                          "get_on_ground_margin", "get_margins"}
                   /\ calls[i].op = "run" => calls[i].app = "rasterization_application"
             /\ pc = "done" =>
                   /\ Len(StageRuns) = 1
                   /\ StageRuns[1].input =
                         <<Produced("generate_point_clouds", self.inputs.point_clouds),
                           Produced("get_bounds", self.inputs.point_clouds)>>
        ELSE pc = "done" =>
                \A k \in 1..3 : Len(CallsOfApp("run", StageOrder[k])) = 1

\* C7 witness: a run of the no_merging pipeline is over.
C7_Witness ==
    /\ Running
    /\ self.used_conf.pipeline = "dense_point_clouds_to_dense_dsm_no_merging"
    /\ pc = "done"
    /\ Len(StageRuns) = 1

\* C8: the margin passed to the fusion stage is the sum of the on-ground
\* margins of the two outlier-removal stages, both asked at the rasterization
\* resolution, and of the rasterization margin.
C8_FusionMarginIsSum ==
    Running =>
        \A i \in 1..Len(StageRuns) :
            StageRuns[i].app = "pc_fusion_application" =>
                LET g1 == CallsOfApp("get_on_ground_margin", "pc_outliers_removing_1_app")
                    g2 == CallsOfApp("get_on_ground_margin", "pc_outliers_removing_2_app")
                    gr == CallsOf("get_margins")
                IN  /\ Len(g1) = 1 /\ Len(g2) = 1 /\ Len(gr) = 1
                    /\ g1[1].resolution = self.rasterization_application.resolution
                    /\ g2[1].resolution = self.rasterization_application.resolution
                    /\ StageRuns[i].margins = g1[1].result + g2[1].result + gr[1].result

\* C8 witness: the stages report the margins 2, 3 and 5 and the fusion stage
\* has been run with the margin 10.
C8_Witness ==
    /\ Running
    /\ self.pc_outliers_removing_1_app.on_ground_margin = 2
    /\ self.pc_outliers_removing_2_app.on_ground_margin = 3
    /\ self.rasterization_application.margins = 5
    /\ Len(StageRuns) >= 1
    /\ StageRuns[1].app = "pc_fusion_application"
    /\ StageRuns[1].margins = 10

\* the tile width handed to fusion is the conversion of the least of the
\* widths the applications of the set apps report, each of them asked with
\* the same memory budget, superposing count and point spacing
TileWidthIsMinimumOver(apps) ==
    \A i \in 1..Len(StageRuns) :
        StageRuns[i].app = "pc_fusion_application" =>
            LET asked == CallsOf("get_optimal_tile_size")
                conv == CallsOf("convert_optimal_tile_size_with_epsg")
                reported == {asked[j].result : j \in 1..Len(asked)}
            IN  /\ apps = {asked[j].app : j \in 1..Len(asked)}
                /\ \A j \in 1..Len(asked) :
                      /\ asked[j].max_ram_per_worker = MaxRamPerWorker
                      /\ asked[j].superposing_point_clouds =
                            locals.max_number_superposing_point_clouds
                      /\ asked[j].point_cloud_resolution =
                            locals.average_distance_point_cloud
                /\ Len(conv) = 1
                /\ conv[1].input.value \in reported
                /\ \A w \in reported : conv[1].input.value <= w
                /\ conv[1].input.epsg = locals.epsg_cloud.some
                /\ StageRuns[i].optimal_terrain_tile_width = conv[1].result
                /\ conv[1].result.epsg = locals.epsg.some

\* C9 as stated: the tile width is the minimum of the widths reported by
\* fusion, both outlier-removal stages and rasterization, taken before the
\* unit conversion, and the converted value is handed to fusion.
C9_MinimumOverAllStages ==
    Running =>
        TileWidthIsMinimumOver({"pc_fusion_application", "pc_outliers_removing_1_app",
                                "pc_outliers_removing_2_app", "rasterization_application"})

\* C9 amended: the tile width is the minimum of the widths reported by the two
\* outlier-removal stages and rasterization (fusion is not asked), taken
\* before the unit conversion, and the converted value is handed to fusion.
C9_MinimumOverDownstreamStages ==
    Running =>
        TileWidthIsMinimumOver({"pc_outliers_removing_1_app",
                                "pc_outliers_removing_2_app", "rasterization_application"})

\* C9 witness: fusion has run with a converted width after rasterization
\* reported a width strictly below those of the outlier-removal stages.
C9_Witness ==
    /\ Running
    /\ Merging
    /\ Len(StageRuns) >= 1
    /\ locals.epsg # locals.epsg_cloud
    /\ LET asked == CallsOf("get_optimal_tile_size")
       IN  /\ asked[3].result < asked[1].result
           /\ asked[3].result < asked[2].result
           /\ StageRuns[1].optimal_terrain_tile_width.value = asked[3].result

\* C13: when the tile width that results from the minimum and the conversion
\* is not positive, run fails with ConfigurationError and the fusion stage is
\* never run with that width.
C13_ConfigurationErrorOnTileWidth ==
    (Running /\ Merging) =>
        /\ \A i \in 1..Len(StageRuns) :
              StageRuns[i].app = "pc_fusion_application" =>
                  StageRuns[i].optimal_terrain_tile_width.value > 0
        /\ (pc \notin {"start", "transform", "tile_width", "convert"}
               /\ locals.optimal_terrain_tile_width.value <= 0) =>
              pc = "ConfigurationError"

\* C16: the final raster is written only when every tile task of the
\* rasterization has ended, with a patch or with no output, whatever the
\* order the tasks end in; no task is dispatched before the rasterization
\* stage runs; and run has returned only if the raster is written.
C16_WriteAfterEveryTile ==
    Running =>
        /\ orch.written => \A t \in orch.tiles : orch.tasks[t] \in {"patch", "no_output"}
        /\ (pc = "done") = orch.written
        /\ (\E t \in orch.tiles : orch.tasks[t] # "none") =>
              (orch.entered /\ CallsOfApp("run", "rasterization_application") # <<>>)

\* run has returned from a terrain of three tiles, the second of which gave
\* no output
C16_Witness ==
    /\ Running
    /\ pc = "done"
    /\ orch.written
    /\ Cardinality(orch.tiles) = MaxTiles
    /\ orch.tasks[1] = "patch"
    /\ orch.tasks[2] = "no_output"

(***************************************************************************)
(* The tile width of run as a function of the cluster's memory and of the  *)
(* number of superposing point clouds: two sizings that differ in one of   *)
(* the two inputs, the other one and the point spacing being the same.     *)
(***************************************************************************)
SizingInputs == {"max_ram_per_worker", "superposing_point_clouds"}
\* the answers of the three applications' get_optimal_tile_size
Answers == Widths \X Widths \X Widths
\* each application's own answer grows with the memory and shrinks with the
\* number of clouds: small and large are its answers for the smaller and for
\* the larger value of the input
StageAnswersMonotonic(input, small, large) ==
    \A k \in 1..3 :
        IF input = "max_ram_per_worker" THEN small[k] <= large[k]
        ELSE large[k] <= small[k]

\* a width that is not the smallest of the three
TileWidthUnordered(answers) == IF answers[3] < answers[1] THEN answers[3] ELSE answers[2]
\* lines 378-406: min(..., ..., ...) of the three answers
optimal_terrain_tile_width(answers) == Min3(answers[1], answers[2], answers[3])

SizingInit ==
    /\ cloud = <<>>
    /\ resolution = ResMax
    /\ xy = NotCalled
    /\ axes = NotCalled
    /\ RasterIdle
    /\ self = None
    /\ pc = "idle"
    /\ locals = None
    /\ calls = <<>>
    /\ orch = None
    /\ cfg = None
    /\ built = NotCalled
    /\ fill = None
    /\ masking = None
    /\ sizing \in {[input |-> input,
                    small |-> [answers |-> a, width |-> None],
                    large |-> [answers |-> b, width |-> None]] :
                       input \in SizingInputs,
                       a \in Answers, b \in Answers}
    /\ StageAnswersMonotonic(sizing.input, sizing.small.answers, sizing.large.answers)

\* run sizes its tiles for the smaller value of the input
SizeForSmall ==
    /\ sizing # None
    /\ sizing.small.width = None
    /\ sizing' = [sizing EXCEPT
          !.small.width = Some(optimal_terrain_tile_width(sizing.small.answers))]
    /\ UNCHANGED <<gridVars, rasterVars, pipelineVars, cfg, built, fill, masking>>

\* run sizes its tiles for the larger value of the input
SizeForLarge ==
    /\ sizing # None
    /\ sizing.large.width = None
    /\ sizing' = [sizing EXCEPT
          !.large.width = Some(optimal_terrain_tile_width(sizing.large.answers))]
    /\ UNCHANGED <<gridVars, rasterVars, pipelineVars, cfg, built, fill, masking>>

SizingNext == SizeForSmall \/ SizeForLarge

SpecSizing == SizingInit /\ [][SizingNext]_vars

Sized == sizing # None /\ sizing.small.width # None /\ sizing.large.width # None

\* C17: when each application's own width never shrinks with a larger memory
\* budget and never grows with a larger number of superposing clouds, the
\* width run chooses never shrinks with a larger memory budget and never
\* grows with a larger number of superposing clouds.
C17_TileWidthMonotonic ==
    Sized =>
        IF sizing.input = "max_ram_per_worker"
        THEN sizing.small.width.some <= sizing.large.width.some
        ELSE sizing.large.width.some <= sizing.small.width.some

\* with more superposing clouds the width is strictly smaller, and it comes
\* from another application than before
C17_Witness ==
    /\ Sized
    /\ sizing.input = "superposing_point_clouds"
    /\ sizing.large.width.some < sizing.small.width.some
    /\ sizing.small.width.some = sizing.small.answers[1]
    /\ sizing.small.answers[1] < sizing.small.answers[3]
    /\ sizing.large.width.some = sizing.large.answers[3]
    /\ sizing.large.answers[3] < sizing.large.answers[1]

(***************************************************************************)
(* Application factories.  A python dict is a function on its keys; an     *)
(* optional dict is None or Some(dict).                                    *)
(***************************************************************************)
EmptyDict == [k \in {} |-> None]
\* d.get(key, default)
Get(dct, key, default) == IF key \in DOMAIN dct THEN dct[key] ELSE default
\* bool(conf) is False: conf is None or an empty dict
IsFalse(c) == c = None \/ DOMAIN c.some = {}

\* an unregistered method replaced by the default application
NewApplicationOrDefault(default_application, available_applications, c) ==
    LET asked == IF IsFalse(c) \/ "method" \notin DOMAIN c.some
                 THEN default_application ELSE c.some["method"]
        method == IF asked \in available_applications THEN asked ELSE default_application
    IN  [status |-> "return", instance |-> [method |-> method]]
\* DenseMatchingFilling.__new__: cls.default_application, the registry
\* cls.available_applications and conf
NewApplication(default_application, available_applications, c) ==
    IF ~IsFalse(c) /\ "method" \notin DOMAIN c.some
    THEN [status |-> "raise", error |-> "KeyError", key |-> "method"]
    ELSE LET fill_method == IF IsFalse(c) THEN default_application ELSE c.some["method"]
         IN  IF fill_method \notin available_applications
             THEN [status |-> "raise", error |-> "KeyError", key |-> fill_method]
             ELSE [status |-> "return", instance |-> [method |-> fill_method]]

\* DenseMatchingFilling(conf)
DenseMatchingFilling(available_applications, c) ==
    NewApplication("plane", available_applications, c)

\* the subclasses of DenseMatchingFilling that __init_subclass__ may have
\* registered, and the configurations it is asked with
FillingMethods == {"plane", "zero_padding", "unregistered"}
FillingRegistries == SUBSET {"plane", "zero_padding"}
FillingConfs ==
    {None, Some(EmptyDict), Some([save_intermediate_data |-> TRUE])}
    \cup {Some([method |-> m]) : m \in FillingMethods}
    \cup {Some([method |-> m, save_intermediate_data |-> s]) :
             m \in FillingMethods, s \in BOOLEAN}
FillingCalls ==
    {[conf |-> c, available_applications |-> r, result |-> NotCalled] :
        c \in FillingConfs, r \in FillingRegistries}

CallDenseMatchingFilling ==
    /\ fill # None
    /\ fill.result = NotCalled
    /\ fill' = [fill EXCEPT
          !.result = DenseMatchingFilling(fill.available_applications, fill.conf)]
    /\ UNCHANGED <<gridVars, rasterVars, pipelineVars, cfg, built, sizing, masking>>

(***************************************************************************)
(* PointCloudsToDsmPipeline.__init__                                       *)
(***************************************************************************)
\* the applications of the pipeline: the attribute of self, the name given to
\* Application, the key of the configuration, the default of used_conf.get
StageApplications ==
    <<[attr |-> "pc_fusion_application", name |-> "point_cloud_fusion",
       key |-> "point_cloud_fusion", default |-> EmptyDict],
      [attr |-> "pc_outliers_removing_1_app", name |-> "point_cloud_outliers_removing",
       key |-> "point_cloud_outliers_removing.1",
       default |-> [method |-> "small_components"]],
      [attr |-> "pc_outliers_removing_2_app", name |-> "point_cloud_outliers_removing",
       key |-> "point_cloud_outliers_removing.2",
       default |-> [method |-> "statistical"]],
      [attr |-> "rasterization_application", name |-> "point_cloud_rasterization",
       key |-> "point_cloud_rasterization", default |-> EmptyDict]>>

\* the methods registered under an application name
RegisteredMethods(name) ==
    CASE name = "point_cloud_fusion" -> {"mapping_to_terrain_tiles"}
      [] name = "point_cloud_outliers_removing" -> {"small_components", "statistical"}
      [] name = "point_cloud_rasterization" -> {"simple_gaussian"}

\* the method an application name stands for when none is asked; the default
\* of the outlier removals is one of their two methods
DefaultMethod(name, outliers_default) ==
    CASE name = "point_cloud_fusion" -> "mapping_to_terrain_tiles"
      [] name = "point_cloud_outliers_removing" -> outliers_default
      [] name = "point_cloud_rasterization" -> "simple_gaussian"

\* resolutions are counted in thousandths of a unit of the output system
DefaultResolution == 500

\* Application(name, cfg=c): the instance of the method c asks for, holding
\* the configuration it uses
Application(name, c, outliers_default) ==
    LET method == Get(c, "method", DefaultMethod(name, outliers_default))
        used == [method |-> method] @@ c
    IN  IF method \notin RegisteredMethods(name)
        THEN [status |-> "raise", error |-> "KeyError", key |-> method]
        ELSE [status |-> "return",
              instance |->
                  [name |-> name, method |-> method,
                   used_config |->
                       IF name = "point_cloud_rasterization"
                       THEN used @@ [resolution |-> DefaultResolution]
                       ELSE used]]

\* application.get_conf()
get_conf(instance) == instance.used_config

\* the applications of the merging pipeline, whatever the pipeline
NeededApplicationsOfMerging(no_merging) ==
    <<"point_cloud_rasterization", "point_cloud_fusion",
      "point_cloud_outliers_removing.1", "point_cloud_outliers_removing.2">>

\* needed_applications
NeededApplications(no_merging) ==
    <<"point_cloud_rasterization">> \o
    (IF ~no_merging
     THEN <<"point_cloud_fusion", "point_cloud_outliers_removing.1",
            "point_cloud_outliers_removing.2">>
     ELSE <<>>)

Range(seq) == {seq[i] : i \in 1..Len(seq)}

\* lines 211-248: the four applications are built one after the other, each
\* from its entry of used_conf, which its get_conf() then replaces
RECURSIVE BuildApplications(_, _, _, _)
BuildApplications(i, used_conf, instances, outliers_default) ==
    IF i > Len(StageApplications)
    THEN [status |-> "return", used_conf |-> used_conf, instances |-> instances]
    ELSE LET app == StageApplications[i]
             new == Application(app.name, Get(used_conf, app.key, app.default),
                                outliers_default)
         IN  IF new.status = "raise"
             THEN [status |-> "raise", error |-> new.error, key |-> new.key,
                   used_conf |-> used_conf, instances |-> instances]
             ELSE BuildApplications(
                      i + 1,
                      (app.key :> get_conf(new.instance)) @@ used_conf,
                      Append(instances, [attr |-> app.attr] @@ new.instance),
                      outliers_default)

check_applications(c, no_merging, save_all_intermediate_data, outliers_default) ==
    LET needed_applications == NeededApplications(no_merging)
    IN  IF \E app_key \in DOMAIN c : app_key \notin Range(needed_applications)
        THEN [status |-> "raise", error |-> "NameError",
              used_conf |-> EmptyDict, instances |-> <<>>]
        ELSE LET used_conf ==
                     [app_key \in Range(needed_applications) |->
                         LET given == Get(c, app_key, EmptyDict)
                         IN  [save_intermediate_data |->
                                 Get(given, "save_intermediate_data",
                                     save_all_intermediate_data)] @@ given]
             IN  BuildApplications(1, used_conf, <<>>, outliers_default)

\* CRS.from_epsg(epsg).is_geographic
IsGeographic(epsg) == epsg = "wgs84"

\* 10e-3, in thousandths
ResolutionThreshold == 10

\* the warning logged on a resolution at or above the threshold
ExceedsThresholdOrEquals(res) == res >= ResolutionThreshold
\* resolution > 10e-3
ExceedsThreshold(res) == res > ResolutionThreshold

\* check_outputs_with_applications: what it logs
check_outputs_with_applications(outputs_conf, application_conf) ==
    [status |-> "return",
     log |->
        IF /\ "epsg" \in DOMAIN outputs_conf
           /\ outputs_conf["epsg"] # None
           /\ IsGeographic(outputs_conf["epsg"].some)
           /\ \/ /\ "point_cloud_rasterization" \in DOMAIN application_conf
                 /\ ExceedsThreshold(
                        application_conf["point_cloud_rasterization"]["resolution"])
              \/ "point_cloud_rasterization" \notin DOMAIN application_conf
        THEN <<[level |-> "warning",
                message |-> "The resolution of the point_cloud_rasterization should be fixed according to the epsg"]>>
        ELSE <<>>]

\* the margins and the resolution run asks the applications for
WithAccessors(instance) ==
    IF instance.name = "point_cloud_outliers_removing"
    THEN [on_ground_margin |-> 0] @@ instance
    ELSE IF instance.name = "point_cloud_rasterization"
    THEN [margins |-> 0, resolution |-> instance.used_config["resolution"]] @@ instance
    ELSE instance

\* __init__(conf): the constructed object, or the error that left none
PointCloudsToDsmPipeline(c, outliers_default) ==
    LET pipeline == IF c.pipeline = None THEN "dense_point_clouds_to_dense_dsm"
                    ELSE c.pipeline.some
        checked == check_applications(c.applications, NoMerging(pipeline), FALSE,
                                      outliers_default)
    IN  IF checked.status = "raise"
        THEN [status |-> "raise", error |-> checked.error, log |-> <<>>,
              instances |-> checked.instances, used_conf |-> checked.used_conf]
        ELSE LET outputs == check_outputs_with_applications(c.output, checked.used_conf)
             IN  [status |-> "return", log |-> outputs.log,
                  instances |-> checked.instances, used_conf |-> checked.used_conf,
                  object |->
                      [app \in {checked.instances[i].attr : i \in 1..Len(checked.instances)} |->
                          WithAccessors(CHOOSE inst \in Range(checked.instances) :
                                            inst.attr = app)]
                      @@ [used_conf |-> [pipeline |-> pipeline,
                                         applications |-> checked.used_conf],
                          output |-> c.output,
                          inputs |-> [point_clouds |-> "point_clouds"]]]

(***************************************************************************)
(* The configurations a pipeline is constructed from.                      *)
(***************************************************************************)
RasterizationResolutions == {ResolutionThreshold \div 2, ResolutionThreshold,
                             2 * ResolutionThreshold}
\* what a user may give for an application: nothing (None) or a dict
RasterizationConfs == {None} \cup {Some([resolution |-> r]) : r \in RasterizationResolutions}
FusionConfs ==
    {None, Some([method |-> "mapping_to_terrain_tiles"]), Some([method |-> "unregistered"])}
OutliersRemovingConfs ==
    {None, Some([save_intermediate_data |-> TRUE])}
    \cup {Some([method |-> m]) : m \in {"small_components", "statistical", "unregistered"}}
\* an application this pipeline has no use for
OtherConfs == {None, Some([method |-> "census_sgm"])}

Entry(key, c) == IF c = None THEN EmptyDict ELSE (key :> c.some)

UserConfs ==
    {[pipeline |-> name,
      output |-> [epsg |-> epsg],
      applications |->
          Entry("point_cloud_rasterization", r) @@ Entry("point_cloud_fusion", f)
          @@ Entry("point_cloud_outliers_removing.1", o1)
          @@ Entry("point_cloud_outliers_removing.2", o2)
          @@ Entry("dense_matching", x)] :
        name \in {None} \cup {Some(n) : n \in PipelineNames},
        epsg \in OutputEpsg,
        r \in RasterizationConfs, f \in FusionConfs,
        o1 \in OutliersRemovingConfs, o2 \in OutliersRemovingConfs, x \in OtherConfs}

ConstructInit ==
    /\ cloud = <<>>
    /\ resolution = ResMax
    /\ xy = NotCalled
    /\ axes = NotCalled
    /\ RasterIdle
    /\ self = None
    /\ pc = "idle"
    /\ locals = None
    /\ calls = <<>>
    /\ orch = Orchestrator(1..1)
    /\ built = NotCalled
    /\ sizing = None
    /\ masking = None
    /\ \/ /\ fill = None
          /\ cfg \in {[conf |-> c, outliers_default |-> d] :
                         c \in UserConfs, d \in RegisteredMethods("point_cloud_outliers_removing")}
       \/ /\ fill \in FillingCalls
          /\ cfg = None

\* PointCloudsToDsmPipeline(conf); on success run may be called on the object
Construct ==
    /\ cfg # None
    /\ built = NotCalled
    /\ LET new == PointCloudsToDsmPipeline(cfg.conf, cfg.outliers_default)
       IN  /\ built' = [status |-> new.status,
                        error |-> IF new.status = "raise" THEN new.error ELSE "",
                        log |-> new.log, instances |-> new.instances,
                        used_conf |-> new.used_conf]
           /\ IF new.status = "return"
              THEN /\ self' = new.object
                   /\ pc' = "start"
                   /\ locals' = NoLocals
              ELSE UNCHANGED <<self, pc, locals>>
    /\ UNCHANGED <<gridVars, rasterVars, calls, orch, cfg, fill, sizing, masking>>

ConstructNext == Construct \/ CallDenseMatchingFilling \/ PipelineNext

SpecConstruct == ConstructInit /\ [][ConstructNext]_vars

(***************************************************************************)
(* Claims about the construction of applications and of the pipeline.      *)
(***************************************************************************)
FillingCalled == fill # None /\ fill.result # NotCalled
\* the method a call of DenseMatchingFilling asks for, if it names one
AsksForMethod == IsFalse(fill.conf) \/ "method" \in DOMAIN fill.conf.some
AskedMethod == IF IsFalse(fill.conf) THEN "plane" ELSE fill.conf.some["method"]
StageAttributes == {StageApplications[i].attr : i \in 1..Len(StageApplications)}

\* run is called on constructed objects only: every stage application exists
\* before run starts, and a failed construction leaves nothing to run
StagesBuiltBeforeRun ==
    /\ pc # "idle" =>
          /\ cfg # None => built.status = "return"
          /\ StageAttributes \subseteq DOMAIN self
    /\ (cfg # None /\ built.status = "raise") =>
          (self = None /\ pc = "idle" /\ calls = <<>>)

\* the outcome of asking for a method that is not registered
UnregisteredMethodFailsWith(error) ==
    (FillingCalled /\ AsksForMethod) =>
        IF AskedMethod \in fill.available_applications
        THEN /\ fill.result.status = "return"
             /\ fill.result.instance.method = AskedMethod
        ELSE /\ fill.result.status = "raise"
             /\ fill.result.error = error
             /\ "instance" \notin DOMAIN fill.result

\* C14 as stated: asking for a method that is not registered fails with
\* UnknownApplicationMethodError and yields no instance; the pipeline builds
\* every stage application in its constructor, before run.
C14_UnknownApplicationMethodError ==
    /\ UnregisteredMethodFailsWith("UnknownApplicationMethodError")
    /\ StagesBuiltBeforeRun

\* C14 amended: asking for a method that is not registered fails with
\* KeyError and yields no instance; the pipeline builds every stage
\* application in its constructor, before run.
C14_UnregisteredMethodKeyError ==
    /\ UnregisteredMethodFailsWith("KeyError")
    /\ StagesBuiltBeforeRun

\* C14 witness: DenseMatchingFilling was asked for a method that no subclass
\* registered, although others are registered, and raised.
C14_Witness ==
    /\ FillingCalled
    /\ ~IsFalse(fill.conf)
    /\ AsksForMethod
    /\ AskedMethod = "unregistered"
    /\ fill.available_applications # {}
    /\ fill.result.status = "raise"

Constructed == cfg # None /\ built # NotCalled
\* the resolution of the rasterization, in thousandths: the user's or the default
ConfiguredResolution ==
    IF "point_cloud_rasterization" \in DOMAIN cfg.conf.applications
    THEN cfg.conf.applications["point_cloud_rasterization"]["resolution"]
    ELSE DefaultResolution

MergingConfigured ==
    cfg.conf.pipeline = None \/ ~NoMerging(cfg.conf.pipeline.some)
\* the user gives no method for either outlier removal: no entry, or an
\* entry without "method"
NoOutlierMethodGiven ==
    \A key \in {"point_cloud_outliers_removing.1", "point_cloud_outliers_removing.2"} :
        \/ key \notin DOMAIN cfg.conf.applications
        \/ "method" \notin DOMAIN cfg.conf.applications[key]
\* the application a constructed pipeline holds under an attribute
BuiltApplication(attr) == CHOOSE inst \in Range(built.instances) : inst.attr = attr

\* C20: a merging pipeline constructed from a configuration that gives no
\* method for the outlier removals holds a first outlier removal of method
\* small_components and a second one of method statistical.
C20_OutlierDefaultsInOrder ==
    (Constructed /\ built.status = "return" /\ MergingConfigured /\ NoOutlierMethodGiven) =>
        /\ BuiltApplication("pc_outliers_removing_1_app").method = "small_components"
        /\ BuiltApplication("pc_outliers_removing_2_app").method = "statistical"

\* the keys of the user's applications that the pipeline asked for has no
\* use for
UnneededKeys ==
    DOMAIN cfg.conf.applications \
        (IF MergingConfigured
         THEN {"point_cloud_rasterization", "point_cloud_fusion",
               "point_cloud_outliers_removing.1", "point_cloud_outliers_removing.2"}
         ELSE {"point_cloud_rasterization"})

\* C23: the construction fails with NameError exactly when the user's
\* applications have a key the pipeline does not need; it then has built no
\* application and written no entry of the used configuration, and there is
\* no object to run.
C23_NameErrorOnUnneededKey ==
    Constructed =>
        /\ (built.status = "raise" /\ built.error = "NameError") <=> (UnneededKeys # {})
        /\ UnneededKeys # {} =>
              /\ built.instances = <<>>
              /\ built.used_conf = EmptyDict
              /\ self = None

\* C23 witness: the no_merging pipeline given a fusion entry, which the
\* merging pipeline would accept
C23_Witness ==
    /\ Constructed
    /\ ~MergingConfigured
    /\ UnneededKeys = {"point_cloud_fusion"}
    /\ built.status = "raise"
    /\ built.error = "NameError"

(***************************************************************************)
(* mask_classes.get_msk_from_classes, as test_get_msk_from_tag calls it.   *)
(***************************************************************************)
\* lines 59-63 of the test: the classes and the multi-class mask
classes_to_use_for_msk == {1, 100, 200}
mc_msk == [shape |-> <<3, 3>>, data |-> <<0, 0, 2, 1, 0, 100, 0, 100, 200>>]
\* lines 68-70, 78-80 and 87-89 of the test: the masks it expects
ref_msk_default == [shape |-> <<3, 3>>, data |-> <<0, 0, 0, 255, 0, 255, 0, 255, 255>>]
ref_msk_int8 == [shape |-> <<3, 3>>, data |-> <<0, 0, 0, 1, 0, 1, 0, 1, 1>>]
ref_msk_bool == [shape |-> <<3, 3>>, data |-> <<FALSE, FALSE, FALSE, TRUE, FALSE, TRUE, FALSE, TRUE, TRUE>>]

\* the default of out_msk_pix_value
DefaultOutMskPixValue == 255
\* the default of out_msk_dtype
DefaultOutMskDtype == "uint16"
OutMskDtypes == {"uint16", "int8", "bool"}
\* the integers a dtype holds
DtypeRange(dtype) ==
    IF dtype = "uint16" THEN 0..65535
    ELSE IF dtype = "int8" THEN -128..127
    ELSE 0..1

\* a value stored in an array of a dtype that holds it
AsType(v, dtype) == IF dtype = "bool" THEN v # 0 ELSE v

\* a mask that marks every pixel
MarkEveryPixel(msk, classes, out_msk_pix_value, out_msk_dtype) ==
    [shape |-> msk.shape,
     data |-> [k \in 1..Len(msk.data) |-> AsType(out_msk_pix_value, out_msk_dtype)]]

get_msk_from_classes(msk, classes, out_msk_pix_value, out_msk_dtype) ==
    [shape |-> msk.shape,
     data |-> [k \in 1..Len(msk.data) |->
                  IF msk.data[k] \in classes
                  THEN AsType(out_msk_pix_value, out_msk_dtype)
                  ELSE AsType(0, out_msk_dtype)]]

\* the classes of the masks
MaskClasses == {0} \cup classes_to_use_for_msk \cup {2}
MaskShapes == {<<h, w>> : h \in 1..MaxMaskPix, w \in 1..MaxMaskPix}
Masks ==
    {mc_msk} \cup
    UNION {{[shape |-> sh, data |-> dt] : dt \in [1..(sh[1] * sh[2]) -> MaskClasses]} :
              sh \in {x \in MaskShapes : x[1] * x[2] <= MaxMaskPix}}
OutMskPixValues == {DefaultOutMskPixValue, 1}

MaskInit ==
    /\ cloud = <<>>
    /\ resolution = ResMax
    /\ xy = NotCalled
    /\ axes = NotCalled
    /\ RasterIdle
    /\ self = None
    /\ pc = "idle"
    /\ locals = None
    /\ calls = <<>>
    /\ orch = None
    /\ cfg = None
    /\ built = NotCalled
    /\ fill = None
    /\ sizing = None
    /\ masking \in {[mc_msk |-> m, classes |-> c, out_msk_pix_value |-> v,
                     out_msk_dtype |-> t, out_msk |-> NotCalled] :
                        m \in Masks, c \in SUBSET (MaskClasses \ {0}),
                        v \in OutMskPixValues, t \in OutMskDtypes}
    /\ masking.out_msk_dtype # "bool" =>
          masking.out_msk_pix_value \in DtypeRange(masking.out_msk_dtype)

CallGetMskFromClasses ==
    /\ masking # None
    /\ masking.out_msk = NotCalled
    /\ masking' = [masking EXCEPT
          !.out_msk = get_msk_from_classes(masking.mc_msk, masking.classes,
                                           masking.out_msk_pix_value, masking.out_msk_dtype)]
    /\ UNCHANGED <<gridVars, rasterVars, pipelineVars, constructVars, sizing>>

MaskNext == CallGetMskFromClasses

SpecMask == MaskInit /\ [][MaskNext]_vars

MaskReturned == masking # None /\ masking.out_msk # NotCalled
\* the call is one of the test's, with this output value and dtype
TestCall(v, t) ==
    /\ masking.mc_msk = mc_msk
    /\ masking.classes = classes_to_use_for_msk
    /\ masking.out_msk_pix_value = v
    /\ masking.out_msk_dtype = t

\* C19: the mask returned has the shape of the input; a pixel holds
\* out_msk_pix_value (True for a boolean dtype) exactly when the class of the
\* input pixel is in the list and 0 (False) otherwise; on the calls of the
\* unit test it is the mask the test expects.
C19_MaskOfClasses ==
    MaskReturned =>
        LET out == masking.out_msk
            hit == IF masking.out_msk_dtype = "bool" THEN TRUE ELSE masking.out_msk_pix_value
            miss == IF masking.out_msk_dtype = "bool" THEN FALSE ELSE 0
        IN  /\ out.shape = masking.mc_msk.shape
            /\ Len(out.data) = Len(masking.mc_msk.data)
            /\ \A k \in 1..Len(out.data) :
                  /\ (masking.mc_msk.data[k] \in masking.classes) <=> (out.data[k] = hit)
                  /\ (masking.mc_msk.data[k] \notin masking.classes) <=> (out.data[k] = miss)
            /\ TestCall(DefaultOutMskPixValue, DefaultOutMskDtype) => out = ref_msk_default
            /\ TestCall(1, "int8") => out = ref_msk_int8
            /\ TestCall(DefaultOutMskPixValue, "bool") => out = ref_msk_bool

\* the boolean call of the unit test has returned
C19_Witness ==
    /\ MaskReturned
    /\ TestCall(DefaultOutMskPixValue, "bool")
    /\ masking.out_msk.data[4]
    /\ ~masking.out_msk.data[3]

====
